---- MODULE Spec2Model ----
(***************************************************************************)
(* A model of the infrared search engine (package search): the tokenizer   *)
(* (ngrams, buildNGrams), the term table built by Index.build with its     *)
(* pruning rule (maxThreshold), the scorer (tfNorm, tf, idf, tfLogIdf,     *)
(* docScore), the top-K retrieval of Index.Search over a container/heap    *)
(* min-heap (resultHeap), and Save / LoadIndex.                            *)
(*                                                                         *)
(* Strings are sequences of one-character strings.  The float64 values of  *)
(* the term table (Idf, tf) are quotients of small integers and are kept   *)
(* as exact reduced fractions [n, d]; the values that pass through         *)
(* math.Log, math.Sqrt and math.Exp are fixed-point numbers with FixOne    *)
(* units to 1.0, rounded the way that keeps what IEEE rounding keeps       *)
(* (Log(1) = 0, Sqrt(x*x) = x, Exp(0) = 1, monotonicity).                  *)
(***************************************************************************)
EXTENDS Integers, Sequences, FiniteSets, TLC

(***************************************************************************)
(* Bounds of the model.                                                    *)
(***************************************************************************)
MaxDocs == 4

MaxLimit == 2

MaxQueryLen == 2

(***************************************************************************)
(* Strings.                                                                *)
(***************************************************************************)
LowerLetters == <<"a","b","c","d","e","f","g","h","i","j","k","l","m",
                  "n","o","p","q","r","s","t","u","v","w","x","y","z">>

UpperLetters == <<"A","B","C","D","E","F","G","H","I","J","K","L","M",
                  "N","O","P","Q","R","S","T","U","V","W","X","Y","Z">>

Digits == {"0","1","2","3","4","5","6","7","8","9"}

Range(s) == {s[i] : i \in DOMAIN s}

IsSpace(c) == c = " "

IsLetter(c) == c \in Range(LowerLetters) \cup Range(UpperLetters)

IsDigit(c) == c \in Digits

\* strings.ToLower, one character
ToLowerChar(c) ==
    IF c \in Range(UpperLetters)
    THEN LowerLetters[CHOOSE i \in DOMAIN UpperLetters : UpperLetters[i] = c]
    ELSE c

\* strings.ToLower
ToLower(s) == [i \in DOMAIN s |-> ToLowerChar(s[i])]

\* strings.Map with a function that drops the characters outside keep
RECURSIVE FilterChars(_, _)
FilterChars(s, keep) ==
    IF s = <<>> THEN <<>>
    ELSE IF s[1] \in keep THEN <<s[1]>> \o FilterChars(Tail(s), keep)
    ELSE FilterChars(Tail(s), keep)

\* DefaultNormalizer: lowercase, then keep letters, digits and spaces
DefaultNormalizer(s) ==
    LET l == ToLower(s)
    IN  FilterChars(l, {c \in Range(l) : IsLetter(c) \/ IsDigit(c) \/ IsSpace(c)})

\* strings.Fields: the maximal runs of non-space characters
RECURSIVE FieldsFrom(_, _)
FieldsFrom(s, cur) ==
    IF s = <<>> THEN (IF cur = <<>> THEN <<>> ELSE <<cur>>)
    ELSE IF IsSpace(s[1])
         THEN (IF cur = <<>> THEN <<>> ELSE <<cur>>) \o FieldsFrom(Tail(s), <<>>)
         ELSE FieldsFrom(Tail(s), Append(cur, s[1]))

Fields(s) == FieldsFrom(s, <<>>)

\* strings.Join(words, " ")
RECURSIVE Join(_)
Join(words) ==
    IF words = <<>> THEN <<>>
    ELSE IF Len(words) = 1 THEN words[1]
    ELSE words[1] \o <<" ">> \o Join(Tail(words))

(***************************************************************************)
(* Tokenizer.                                                              *)
(***************************************************************************)
\* ngrams: the windows of n words, or the words themselves when there are
\* fewer than n of them
ngrams(words, n) ==
    IF Len(words) < n THEN words
    ELSE [i \in 1..(Len(words) - n + 1) |-> Join(SubSeq(words, i, i + n - 1))]

\* buildNGrams: the words, then their bigrams, then their trigrams
buildNGrams(content) ==
    LET bigrams == ngrams(content, 2)
        trigrams == ngrams(content, 3)
    IN  (content \o bigrams) \o trigrams

(***************************************************************************)
(* buildNGrams on slices.  A slice is the backing array from the slice's   *)
(* first element to its capacity, and a length; fresh tells the array is   *)
(* not the caller's.  ngrams returns its argument, the same slice, when    *)
(* there are fewer than n words, and append writes in place when the       *)
(* capacity allows.                                                        *)
(***************************************************************************)
Values(s) == SubSeq(s.arr, 1, s.len)

\* append(s, xs...): in place within the capacity, else into a new array
appendSlice(s, xs) ==
    IF s.len + Len(xs) <= Len(s.arr)
    THEN [s EXCEPT !.arr = [i \in DOMAIN s.arr |->
                               IF i > s.len /\ i <= s.len + Len(xs)
                               THEN xs[i - s.len] ELSE s.arr[i]],
                   !.len = s.len + Len(xs)]
    ELSE [arr |-> Values(s) \o xs, len |-> s.len + Len(xs), fresh |-> TRUE]

\* buildNGrams with the trigrams taken from the content after the first append
buildNGramsLate(arr, len) ==
    LET content == [arr |-> arr, len |-> len, fresh |-> FALSE]
        withBi == appendSlice(content, ngrams(Values(content), 2))
        withTri == appendSlice(withBi, ngrams(Values(withBi), 3))
    IN  [result |-> Values(withTri),
         callerArr |-> IF withTri.fresh THEN (IF withBi.fresh THEN arr ELSE withBi.arr)
                       ELSE withTri.arr]

\* buildNGrams(content), content the slice of the first len elements of arr:
\* the slice returned, and the caller's backing array after the call.  The
\* bigrams and trigrams that are the argument itself are read from the
\* caller's array when they are appended.
buildNGramsIn(arr, len) ==
    LET content == [arr |-> arr, len |-> len, fresh |-> FALSE]
        words == Values(content)
        bigrams == ngrams(words, 2)
        withBi == appendSlice(content, bigrams)
        arrBi == IF withBi.fresh THEN arr ELSE withBi.arr
        trigrams == IF len < 3 THEN SubSeq(arrBi, 1, len) ELSE ngrams(words, 3)
        withTri == appendSlice(withBi, trigrams)
    IN  [result |-> Values(withTri),
         callerArr |-> IF withTri.fresh THEN arrBi ELSE withTri.arr]

(***************************************************************************)
(* Numbers.  A fraction [n, d] with d > 0 is the float64 quotient n/d;     *)
(* d = 0 stands for +Inf (a division by a zero Length).                    *)
(***************************************************************************)
RECURSIVE GCD(_, _)
GCD(a, b) == IF b = 0 THEN a ELSE GCD(b, a % b)

Frac(n, d) ==
    IF d = 0 THEN [n |-> 1, d |-> 0]
    ELSE LET g == GCD(n, d) IN
         IF g = 0 THEN [n |-> 0, d |-> 1] ELSE [n |-> n \div g, d |-> d \div g]

FracGeq(p, q) == p.n * q.d >= q.n * p.d

FracLt(p, q) == ~FracGeq(p, q)

FracInv(p) == Frac(p.d, p.n)

FracSq(p) == Frac(p.n * p.n, p.d * p.d)

Max(a, b) == IF a >= b THEN a ELSE b

Min(a, b) == IF a <= b THEN a ELSE b

(***************************************************************************)
(* Fixed-point numbers: FixOne units make 1.0.                             *)
(***************************************************************************)
FixOne == 1000

\* float64(n)/float64(d) as a fixed-point number
FixOfFrac(p) == (p.n * FixOne) \div p.d

\* the largest r in lo..hi with r*r <= n (lo*lo <= n)
RECURSIVE IsqrtIn(_, _, _)
IsqrtIn(n, lo, hi) ==
    IF lo >= hi THEN lo
    ELSE LET mid == (lo + hi + 1) \div 2
         IN  IF mid * mid <= n THEN IsqrtIn(n, mid, hi) ELSE IsqrtIn(n, lo, mid - 1)

\* math.Sqrt of a sum of squares of fixed-point numbers: sq is in units of
\* 1/FixOne^2 and the root in units of 1/FixOne, so Sqrt(x*x) = x
SqrtOfSquares(sq) == IsqrtIn(sq, 0, 46340)

Pow2(k) == 2 ^ k

\* ln 2
Ln2 == (693147 * FixOne) \div 1000000

\* the first `bits` binary digits of log2(m / FixOne), FixOne <= m < 2*FixOne
RECURSIVE Log2Frac(_, _)
Log2Frac(m, bits) ==
    IF bits = 0 THEN 0
    ELSE LET sq == (m * m) \div FixOne
         IN  IF sq >= 2 * FixOne
             THEN Pow2(bits - 1) + Log2Frac(sq \div 2, bits - 1)
             ELSE Log2Frac(sq, bits - 1)

\* the k with 2^k <= x / FixOne < 2^(k+1), counted from k
RECURSIVE Log2Int(_, _)
Log2Int(x, k) ==
    IF x < FixOne THEN Log2Int(2 * x, k - 1)
    ELSE IF x >= 2 * FixOne THEN Log2Int(x \div 2, k + 1)
    ELSE k

\* x scaled into FixOne .. 2*FixOne - 1
RECURSIVE Mantissa(_)
Mantissa(x) ==
    IF x < FixOne THEN Mantissa(2 * x)
    ELSE IF x >= 2 * FixOne THEN Mantissa(x \div 2)
    ELSE x

\* math.Log of a fixed-point number x > 0: Log(FixOne) = 0, Log(x) < 0 for
\* x < FixOne, and Log is non-decreasing
Log(x) == ((Log2Int(x, 0) * 1024 + Log2Frac(Mantissa(x), 10)) * Ln2) \div 1024

\* the Taylor terms r^n / n! of e^r from term n on, eight terms in all
RECURSIVE ExpSeries(_, _, _)
ExpSeries(r, n, term) ==
    IF n > 8 THEN 0
    ELSE term + ExpSeries(r, n + 1, (term * r) \div (n * FixOne))

\* math.Exp of a fixed-point number: Exp(0) = FixOne, Exp(x) <= FixOne for
\* x <= 0 and Exp(x) >= FixOne for x >= 0
Exp(x) ==
    IF x <= 0
    THEN LET k == (0 - x) \div Ln2
         IN  ExpSeries(x + k * Ln2, 1, FixOne) \div Pow2(k)
    ELSE LET k == x \div Ln2
         IN  ExpSeries(x - k * Ln2, 1, FixOne) * Pow2(k)

(***************************************************************************)
(* Non-negative reals known by their squares: [sq |-> q] is sqrt(q).  The  *)
(* pruning threshold 1/sqrt(docCount/10) is compared exactly this way.     *)
(***************************************************************************)
RootOfFrac(p) == [sq |-> FracSq(p)]

RootLt(a, b) == FracLt(a.sq, b.sq)

RootGeq(a, b) == FracGeq(a.sq, b.sq)

(***************************************************************************)
(* Documents.                                                              *)
(***************************************************************************)
\* NewDoc: the Document of a file; Length counts the words of the raw content
NewDoc(name, content) ==
    [Name |-> name, Length |-> Len(Fields(content)), Content |-> content]

(***************************************************************************)
(* The index: Index.build and its pruning rule.                            *)
(***************************************************************************)
NoIndex == [none |-> TRUE]

NormalizerNil == "nil"

NormalizerDefault == "DefaultNormalizer"

\* a call of the Index.normalizer function value
Normalize(normalizer, text) ==
    IF normalizer = NormalizerDefault THEN DefaultNormalizer(text) ELSE text

\* the terms build reads from one document
DocTerms(normalizer, doc) == buildNGrams(Fields(Normalize(normalizer, doc.Content)))

Occurrences(term, words) == Cardinality({i \in DOMAIN words : words[i] = term})

\* the sum of c additions of 1.0/float64(Length)
TfOf(c, length) == Frac(c, length)

\* build, first loop: every term with its TfMap, Idf not yet set
TermFreqs(docs, normalizer) ==
    LET words == [name \in DOMAIN docs |-> DocTerms(normalizer, docs[name])]
        terms == UNION {Range(words[name]) : name \in DOMAIN docs}
    IN  [term \in terms |->
            [Idf |-> Frac(0, 1),
             TfMap |-> [name \in {nm \in DOMAIN docs : term \in Range(words[nm])} |->
                           TfOf(Occurrences(term, words[name]), docs[name].Length)]]]

\* maxThreshold: 1/sqrt(max(docCount, 10)/10), and 0.05 when that is smaller
maxThreshold(docCount) ==
    LET dc == Max(docCount, 10)
        f == [sq |-> Frac(10, dc)]
        floor == RootOfFrac(Frac(5, 100))
    IN  IF RootLt(f, floor) THEN floor ELSE f

\* the idf with the document count one too high
IdfOfOneMore(docCount, tfMap) == Frac(docCount + 1, Cardinality(DOMAIN tfMap))

\* build, second loop: the idf of a term
IdfOf(docCount, tfMap) == Frac(docCount, Cardinality(DOMAIN tfMap))

\* the pruning test with > for >=
PrunedStrict(idf, docCount) ==
    ~RootGeq(maxThreshold(docCount), RootOfFrac(FracInv(idf)))

\* build, second loop: whether the term is deleted
Pruned(idf, docCount) == RootGeq(RootOfFrac(FracInv(idf)), maxThreshold(docCount))

\* build: the term table of the documents
build(docs, normalizer) ==
    LET raw == TermFreqs(docs, normalizer)
        n == Cardinality(DOMAIN docs)
        kept == {term \in DOMAIN raw : ~Pruned(IdfOf(n, raw[term].TfMap), n)}
    IN  [term \in kept |->
            [Idf |-> IdfOf(n, raw[term].TfMap), TfMap |-> raw[term].TfMap]]

(***************************************************************************)
(* Index.build loop by loop: the first loop ranges over the map docs and   *)
(* the second over the map TMap, each in an order the runtime chooses.     *)
(***************************************************************************)
\* float64 sum of two fractions
FracAdd(p, q) ==
    IF p.d = 0 \/ q.d = 0 THEN Frac(1, 0)
    ELSE Frac(p.n * q.d + q.n * p.d, p.d * q.d)

\* the inner loop of the first loop: TfMap[doc.Name] += 1.0/float64(doc.Length)
\* for each word, a term new to the table getting an empty TfMap first
RECURSIVE AddWords(_, _, _)
AddWords(tmap, words, doc) ==
    IF words = <<>> THEN tmap
    ELSE LET word == Head(words)
             entry == IF word \in DOMAIN tmap THEN tmap[word]
                      ELSE [Idf |-> Frac(0, 1), TfMap |-> <<>>]
             old == IF doc.Name \in DOMAIN entry.TfMap THEN entry.TfMap[doc.Name]
                    ELSE Frac(0, 1)
             new == [Idf |-> entry.Idf,
                     TfMap |-> (doc.Name :> FracAdd(old, Frac(1, doc.Length)))
                                   @@ entry.TfMap]
         IN  AddWords((word :> new) @@ tmap, Tail(words), doc)

\* one pass of the first loop
BuildDoc(tmap, doc, normalizer) == AddWords(tmap, DocTerms(normalizer, doc), doc)

\* one pass of the second loop with the number of terms of the table for the
\* number of documents
BuildTermByTerms(tmap, term, docCount) ==
    LET count == Cardinality(DOMAIN tmap)
        idfOfTerm == IdfOf(count, tmap[term].TfMap)
    IN  IF Pruned(idfOfTerm, count)
        THEN [t \in DOMAIN tmap \ {term} |-> tmap[t]]
        ELSE [tmap EXCEPT ![term].Idf = idfOfTerm]

\* one pass of the second loop: the Idf of the term, and its deletion when
\* 1/Idf >= maxThreshold()
BuildTerm(tmap, term, docCount) ==
    LET idfOfTerm == IdfOf(docCount, tmap[term].TfMap)
    IN  IF Pruned(idfOfTerm, docCount)
        THEN [t \in DOMAIN tmap \ {term} |-> tmap[t]]
        ELSE [tmap EXCEPT ![term].Idf = idfOfTerm]

\* NewIndex: populate, then build
NewIndexOf(loaded, docOpts) ==
    [TMap |-> build(loaded, NormalizerDefault),
     docs |-> loaded,
     normalizer |-> NormalizerDefault,
     compressed |-> docOpts.Compressed]

DocCount(index) == Cardinality(DOMAIN index.docs)

(***************************************************************************)
(* The scorer.                                                             *)
(***************************************************************************)
\* float64 product of a fixed-point number and a tf fraction
MulFrac(x, p) == (x * p.n) \div p.d

RECURSIVE SumSquares(_, _)
SumSquares(f, names) ==
    IF names = {} THEN 0
    ELSE LET name == CHOOSE nm \in names : TRUE
         IN  f[name] * f[name] + SumSquares(f, names \ {name})

\* tfNorm that skips the normalisation
tfNormOne(index, term) == FixOne

\* tfNorm, the loop: the sum of the squares of ln(Idf) * tf over the TfMap
normSumOf(index, term) ==
    LET tfMap == IF term \in DOMAIN index.TMap THEN index.TMap[term].TfMap ELSE <<>>
        logIdf == IF term \in DOMAIN index.TMap
                  THEN Log(FixOfFrac(index.TMap[term].Idf)) ELSE 0
    IN  SumSquares([name \in DOMAIN tfMap |-> MulFrac(logIdf, tfMap[name])],
                   DOMAIN tfMap)

\* Index.tfNorm: the L2 norm of ln(Idf) * tf over the term's TfMap, or 1.0
tfNorm(index, term) ==
    LET normSum == normSumOf(index, term)
    IN  IF normSum = 0 THEN FixOne ELSE SqrtOfSquares(normSum)

\* Index.tf: the tf of the term in the document, 0 when there is none
tf(index, term, docName) ==
    IF term \in DOMAIN index.TMap /\ docName \in DOMAIN index.TMap[term].TfMap
    THEN index.TMap[term].TfMap[docName]
    ELSE Frac(0, 1)

\* Index.idf: the Idf of the term, 1.0 when the table has none
idf(index, term) ==
    IF term \in DOMAIN index.TMap /\ index.TMap[term].Idf.n # 0
    THEN index.TMap[term].Idf
    ELSE Frac(1, 1)

\* Index.tfLogIdf
tfLogIdf(index, term, docName) ==
    (MulFrac(Log(FixOfFrac(idf(index, term))), tf(index, term, docName)) * FixOne)
        \div tfNorm(index, term)

\* docScore, the loop: the sums after the terms of the list
RECURSIVE ScoreSums(_, _, _, _)
ScoreSums(index, terms, docName, sums) ==
    IF terms = <<>> THEN sums
    ELSE LET term == Head(terms)
             termScore == tfLogIdf(index, ToLower(term), docName)
             w == Log(FixOfFrac(idf(index, term)))
         IN  ScoreSums(index, Tail(terms), docName,
                 IF termScore > 0
                 THEN [weightedSum |-> sums.weightedSum + (w * Log(termScore)) \div FixOne,
                       weightTotal |-> sums.weightTotal + w]
                 ELSE sums)

\* Index.docScore
docScore(index, terms, docName) ==
    LET sums == ScoreSums(index, buildNGrams(terms), docName,
                          [weightedSum |-> 0, weightTotal |-> 0])
    IN  [Name |-> docName,
         Score |-> IF sums.weightTotal = 0 THEN 0
                   ELSE Exp((sums.weightedSum * FixOne) \div sums.weightTotal)]

(***************************************************************************)
(* resultHeap under container/heap: a min-heap on Score.  Position i of    *)
(* the sequence is index i-1 of the slice.                                 *)
(***************************************************************************)
\* resultHeap.Less with the comparison turned round: a max-heap
Greater(h, i, j) == h[i].Score > h[j].Score

\* resultHeap.Less
Less(h, i, j) == h[i].Score < h[j].Score

\* resultHeap.Swap
Swap(h, i, j) == [h EXCEPT ![i] = h[j], ![j] = h[i]]

\* heap.up: sift the entry at j towards the root
RECURSIVE up(_, _)
up(h, j) ==
    LET i == j \div 2
    IN  IF j = 1 \/ ~Less(h, j, i) THEN h ELSE up(Swap(h, i, j), i)

\* heap.down: sift the entry at i towards the leaves of the first n entries
RECURSIVE down(_, _, _)
down(h, i, n) ==
    LET j1 == 2 * i
        j == IF j1 + 1 <= n /\ Less(h, j1 + 1, j1) THEN j1 + 1 ELSE j1
    IN  IF j1 > n THEN h
        ELSE IF ~Less(h, j, i) THEN h
        ELSE down(Swap(h, i, j), j, n)

\* heap.Push: resultHeap.Push appends, then up
HeapPush(h, x) == up(Append(h, x), Len(h) + 1)

\* heap.Pop: swap the root with the last entry, down, then resultHeap.Pop
\* removes the last entry: the heap that is left and the entry removed
HeapPop(h) ==
    LET n == Len(h)
        moved == down(Swap(h, 1, n), 1, n - 1)
    IN  [h |-> SubSeq(moved, 1, n - 1), x |-> moved[n]]

(***************************************************************************)
(* Index.Search, as the steps of one call.                                 *)
(***************************************************************************)
Idle == [pc |-> "idle", terms |-> <<>>, limit |-> 0, candidates |-> {},
         h |-> <<>>, results |-> <<>>]

\* the candidates from the words of the query alone, without their n-grams
CandidatesOfWords(index, terms) ==
    UNION {DOMAIN index.TMap[term].TfMap : term \in Range(terms) \cap DOMAIN index.TMap}

\* the candidates when every document of the index is one
CandidatesAll(index, terms) == DOMAIN index.docs

\* Search, lines 51-61: the documents that hold a term of the query
Candidates(index, terms) ==
    UNION {DOMAIN index.TMap[term].TfMap :
              term \in Range(buildNGrams(terms)) \cap DOMAIN index.TMap}

\* Search up to the loop over the candidates; make([]SearchResult, 0, Limit)
\* panics when Limit is negative
SearchBegin(index, terms, limit) ==
    [pc |-> IF limit < 0 THEN "panic" ELSE "scan",
     terms |-> terms, limit |-> limit,
     candidates |-> Candidates(index, terms),
     h |-> <<>>, results |-> <<>>]

\* one pass of the loop over the candidates, for the candidate name; (*h)[0]
\* panics when the heap is empty
SearchVisit(index, st, name) ==
    LET sr == docScore(index, st.terms, name)
        rest == [st EXCEPT !.candidates = @ \ {name}]
    IN  IF sr.Score > 0
        THEN LET appended == [rest EXCEPT !.results = Append(@, sr)]
             IN  IF Len(st.h) < st.limit
                 THEN [appended EXCEPT !.h = HeapPush(@, sr)]
                 ELSE IF st.h = <<>>
                 THEN [appended EXCEPT !.pc = "panic"]
                 ELSE IF sr.Score > st.h[1].Score
                 THEN [appended EXCEPT !.h = HeapPush(HeapPop(@).h, sr)]
                 ELSE appended
        ELSE rest

\* the loop that pops the heap into results[h.Len()-1], ..., results[0]
RECURSIVE Drain(_, _)
Drain(h, results) ==
    IF h = <<>> THEN results
    ELSE LET popped == HeapPop(h)
         IN  Drain(popped.h, [results EXCEPT ![Len(h)] = popped.x])

\* Search after the loop over the candidates, to its return
SearchFinish(st) ==
    [st EXCEPT !.pc = "done", !.h = <<>>, !.results = Drain(st.h, st.results)]

(***************************************************************************)
(* Save and LoadIndex.  The index file holds the JSON of the exported      *)
(* field of Index, TMap, gzipped or not; a JSON object is the set of its   *)
(* members.  encoding/json writes a float64 in the shortest form that      *)
(* reads back as the same float64, so a number stands for itself.          *)
(***************************************************************************)
NoFile == [none |-> TRUE]

Fatal == [fatal |-> TRUE]

\* json.Marshal of a TermFreq: {"idf": ..., "tf_map": {...}}
MarshalTermFreq(tfreq) ==
    [idf |-> tfreq.Idf,
     tf_map |-> {<<name, tfreq.TfMap[name]>> : name \in DOMAIN tfreq.TfMap}]

\* json.Marshal(idx): {"t_map": {...}}; docs, normalizer and compressed are
\* unexported and are not written
Marshal(index) ==
    [t_map |-> {<<term, MarshalTermFreq(index.TMap[term])>> : term \in DOMAIN index.TMap}]

\* the value of the member of a JSON object with the key
Member(object, key) == (CHOOSE m \in object : m[1] = key)[2]

Keys(object) == {m[1] : m \in object}

\* Unmarshal of a TermFreq that misses the "idf" member
UnmarshalTermFreqNoIdf(json) ==
    [Idf |-> Frac(0, 1),
     TfMap |-> [name \in Keys(json.tf_map) |-> Member(json.tf_map, name)]]

\* json.Unmarshal into a TermFreq
UnmarshalTermFreq(json) ==
    [Idf |-> json.idf,
     TfMap |-> [name \in Keys(json.tf_map) |-> Member(json.tf_map, name)]]

\* json.Unmarshal(data, &idx): TMap is read, the unexported fields keep
\* their zero values
Unmarshal(json) ==
    [TMap |-> [term \in Keys(json.t_map) |-> UnmarshalTermFreq(Member(json.t_map, term))],
     docs |-> <<>>,
     normalizer |-> NormalizerNil,
     compressed |-> FALSE]

\* jsonSaver / gzipSaver: the file written
jsonSaver(index) == [gzip |-> FALSE, data |-> Marshal(index)]

gzipSaver(index) == [gzip |-> TRUE, data |-> Marshal(index)]

\* Index.Save: the saver is chosen by idx.compressed
Save(index) == IF index.compressed THEN gzipSaver(index) ELSE jsonSaver(index)

\* Index.populate
populate(index, loaded) == [index EXCEPT !.docs = loaded]

\* jsonLoader: log.Fatalf when the file is missing or is not JSON
jsonLoader(file, loaded) ==
    IF file = NoFile \/ file.gzip THEN Fatal
    ELSE populate(Unmarshal(file.data), loaded)

\* gzipLoader: log.Fatalf when the file is missing or is not gzip
gzipLoader(file, loaded) ==
    IF file = NoFile \/ ~file.gzip THEN Fatal
    ELSE populate(Unmarshal(file.data), loaded)

\* LoadIndex: the loader is chosen by opts.Compressed
LoadIndex(file, loaded, docOpts) ==
    IF docOpts.Compressed THEN gzipLoader(file, loaded) ELSE jsonLoader(file, loaded)

(***************************************************************************)
(* The state.                                                              *)
(***************************************************************************)
VARIABLES
    fsDocs,   \* the documents the Loader returns, by name
    opts,     \* the DocOpts of NewIndex and LoadIndex
    idx,      \* the index NewIndex returned, NoIndex before
    idx2,     \* a second index, built over fsDocs and one more document
    disk,     \* the file at opts.IndexPath, NoFile before Save
    loaded,   \* the index LoadIndex returned, NoIndex before
    recv,     \* the index the Search call is on: "idx", "idx2" or "loaded"
    srch,     \* the Search call in progress
    prev,     \* the results of the call before, when the caller kept them
    scan,     \* the last full scan of the documents with docScore
    grams,    \* the last call of buildNGrams: its argument and its result
    bld,      \* a run of Index.build, loop by loop
    calls,    \* the Search calls of the concurrent callers
    reload    \* the Save of the loaded index and the LoadIndex after it

vars == <<fsDocs, opts, idx, idx2, disk, loaded, recv, srch, prev, scan,
          grams, bld, calls, reload>>

NoResults == [none |-> TRUE]

NoScan == [none |-> TRUE]

NoGrams == [none |-> TRUE]

NoBuild == [pc |-> "none"]

NoCalls == <<>>

NoReload == [pc |-> "none", index |-> NoIndex]

\* the contents of the files of the corpus
ContentList ==
    << <<"a">>, <<"a", " ", "b">>, <<"b", " ", "b", " ", "a">>, <<"b">> >>

\* the name of the i-th file
DocName(i) == "d" \o ToString(i)

\* the corpora of n files: names are arbitrary, so contents are taken in
\* the order of ContentList
Corpora(n) ==
    {c \in [1..n -> DOMAIN ContentList] : \A i \in 1..(n - 1) : c[i] <= c[i + 1]}

\* DefaultLoader: a Document for each of the files lo..hi, files[i] the
\* content of file i
RECURSIVE LoadFiles(_, _, _)
LoadFiles(files, lo, hi) ==
    IF lo > hi THEN <<>>
    ELSE IF lo = hi THEN DocName(lo) :> NewDoc(DocName(lo), files[lo])
    ELSE LET mid == (lo + hi) \div 2
         IN  LoadFiles(files, lo, mid) @@ LoadFiles(files, mid + 1, hi)

DefaultLoader(files) == LoadFiles(files, 1, Len(files))

\* the files of the corpus c, c[i] the index in ContentList of file i
Files(c) == [i \in DOMAIN c |-> ContentList[c[i]]]

\* the words a query is made of: the corpus's own, one in upper case and
\* one that no document holds
QueryWords ==
    UNION {Range(Fields(fsDocs[name].Content)) : name \in DOMAIN fsDocs}
        \cup {<<"A">>, <<"z">>}

Queries == UNION {[1..n -> QueryWords] : n \in 1..MaxQueryLen}

Limits == (0 - 1)..MaxLimit

\* the state before NewIndex, with the loader's documents and the options
Start(docs, docOpts) ==
    /\ fsDocs = docs
    /\ opts = docOpts
    /\ idx = NoIndex
    /\ idx2 = NoIndex
    /\ disk = NoFile
    /\ loaded = NoIndex
    /\ recv = "idx"
    /\ srch = Idle
    /\ prev = NoResults
    /\ scan = NoScan
    /\ grams = NoGrams
    /\ bld = NoBuild
    /\ calls = NoCalls
    /\ reload = NoReload

Init ==
    \E n \in 0..MaxDocs : \E c \in Corpora(n) :
        Start(DefaultLoader(Files(c)), [Compressed |-> FALSE])

\* the index a Search call on r is a method of
Receiver(r) == IF r = "idx2" THEN idx2 ELSE IF r = "loaded" THEN loaded ELSE idx

\* NewIndex(loader, docOpts)
NewIndex ==
    /\ idx = NoIndex
    /\ idx' = NewIndexOf(fsDocs, opts)
    /\ UNCHANGED <<reload, grams, bld, calls, fsDocs, opts, idx2,
                   disk, loaded, recv, srch, prev, scan>>

\* a call of Search(terms, SearchOpts{Limit: limit}) on the index r
SearchStartOn(r, terms, limit) ==
    /\ srch.pc = "idle"
    /\ recv' = r
    /\ srch' = SearchBegin(Receiver(r), terms, limit)
    /\ UNCHANGED <<reload, grams, bld, calls, fsDocs, opts,
                   idx, idx2, disk, loaded, prev, scan>>

\* a call of idx.Search
SearchStart ==
    /\ idx # NoIndex
    /\ \E terms \in Queries, limit \in Limits : SearchStartOn("idx", terms, limit)

\* the loop of Search takes the next candidate, in the order the map gives
SearchScan ==
    /\ srch.pc = "scan"
    /\ \E name \in srch.candidates : srch' = SearchVisit(Receiver(recv), srch, name)
    /\ UNCHANGED <<reload, grams, bld, calls, fsDocs, opts, idx,
                   idx2, disk, loaded, recv, prev, scan>>

\* Search returns
SearchReturn ==
    /\ srch.pc = "scan"
    /\ srch.candidates = {}
    /\ srch' = SearchFinish(srch)
    /\ UNCHANGED <<reload, grams, bld, calls, fsDocs, opts, idx,
                   idx2, disk, loaded, recv, prev, scan>>

\* the caller is done with the results, and may call Search again
SearchRelease ==
    /\ srch.pc = "done"
    /\ srch' = Idle
    /\ recv' = "idx"
    /\ prev' = NoResults
    /\ UNCHANGED <<reload, grams, bld, calls, fsDocs, opts,
                   idx, idx2, disk, loaded, scan>>

Next == NewIndex \/ SearchStart \/ SearchScan \/ SearchReturn \/ SearchRelease

Spec == Init /\ [][Next]_vars

(***************************************************************************)
(* The full scan: Search as the loop over all the documents (search.go,    *)
(* lines 239-254), docScore applied to every document of the index.        *)
(***************************************************************************)
\* the orders sort.Slice can leave the results in: sorted by descending
\* Score, results of equal Score in any order
SortedByScore(found) ==
    {order \in [1..Cardinality(found) -> found] :
        /\ \A i, j \in DOMAIN order : i # j => order[i] # order[j]
        /\ \A i \in 1..(Len(order) - 1) : order[i].Score >= order[i + 1].Score}

\* docScore of every document of the index
ScoreAll(index, terms) ==
    [name \in DOMAIN index.docs |-> docScore(index, terms, name)]

\* a full-scan Search(terms)
FullScan ==
    /\ idx # NoIndex
    /\ scan = NoScan
    /\ \E terms \in Queries :
          LET scored == ScoreAll(idx, terms)
              found == {scored[name] : name \in {nm \in DOMAIN scored : scored[nm].Score > 0}}
          IN  \E results \in SortedByScore(found) :
                  scan' = [terms |-> terms, scored |-> scored, results |-> results]
    /\ UNCHANGED <<reload, grams, bld, calls, fsDocs, opts, idx,
                   idx2, disk, loaded, recv, srch, prev>>

\* the caller is done with the results of the full scan
ScanRelease ==
    /\ scan # NoScan
    /\ scan' = NoScan
    /\ UNCHANGED <<reload, grams, bld, calls, fsDocs, opts, idx,
                   idx2, disk, loaded, recv, srch, prev>>

NextScore == NewIndex \/ FullScan \/ ScanRelease

SpecScore == Init /\ [][NextScore]_vars

\* C5: docScore is >= 0, and it is 0 exactly when no expanded term of the
\* query (in any letter case) has a positive tfLogIdf for the document.
C5_ZeroIffNoPositiveTerm ==
    scan # NoScan =>
        \A name \in DOMAIN scan.scored :
            /\ scan.scored[name].Score >= 0
            /\ scan.scored[name].Score = 0 <=>
                  \A term \in Range(buildNGrams(scan.terms)) :
                      ~(tfLogIdf(idx, ToLower(term), name) > 0)

(***************************************************************************)
(* Saving the index and loading it back.                                   *)
(***************************************************************************)
Running == srch.pc # "panic" /\ loaded # Fatal

\* idx.Save(opts.IndexPath)
SaveIndex ==
    /\ idx # NoIndex /\ Running /\ srch.pc = "idle"
    /\ disk' = Save(idx)
    /\ UNCHANGED <<reload, grams, bld, calls, fsDocs, opts, idx,
                   idx2, loaded, recv, srch, prev, scan>>

\* LoadIndex(loader, opts), with the loader and the options of NewIndex
LoadIndexCall ==
    /\ idx # NoIndex /\ Running /\ srch.pc = "idle"
    /\ loaded = NoIndex
    /\ loaded' = LoadIndex(disk, fsDocs, opts)
    /\ UNCHANGED <<reload, grams, bld, calls, fsDocs, opts, idx,
                   idx2, disk, recv, srch, prev, scan>>

\* a call of loaded.Search
SearchLoaded ==
    /\ loaded # NoIndex /\ loaded # Fatal
    /\ \E terms \in Queries, limit \in Limits : SearchStartOn("loaded", terms, limit)

InitStore ==
    \E n \in 0..MaxDocs : \E c \in Corpora(n) : \E compressed \in BOOLEAN :
        Start(DefaultLoader(Files(c)), [Compressed |-> compressed])

NextStore ==
    \/ NewIndex
    \/ SaveIndex
    \/ LoadIndexCall
    \/ SearchLoaded
    \/ SearchScan
    \/ SearchReturn
    \/ SearchRelease

SpecStore == InitStore /\ [][NextStore]_vars

\* C6: an index saved with Save and loaded back with LoadIndex, with the
\* same loader and options, has the same document count and the same term
\* table (terms, idf and tf values), and Search on it does what Search on
\* the original does: the same candidates for every query and limit, and
\* the same step for every candidate at every point of a call.
C6_SaveLoadRoundTrip ==
    (disk # NoFile /\ loaded # NoIndex) =>
        /\ loaded # Fatal
        /\ DocCount(loaded) = DocCount(idx)
        /\ loaded.docs = idx.docs
        /\ loaded.TMap = idx.TMap
        /\ srch.pc = "idle" =>
              \A terms \in Queries, limit \in Limits :
                  SearchBegin(loaded, terms, limit) = SearchBegin(idx, terms, limit)
        /\ (recv = "loaded" /\ srch.pc = "scan") =>
              \A name \in srch.candidates :
                  SearchVisit(loaded, srch, name) = SearchVisit(idx, srch, name)

\* C6's case: a gzipped index loaded back, and a Search on it that returned
\* two results or more
C6_Witness ==
    /\ disk # NoFile /\ disk.gzip
    /\ loaded # NoIndex /\ loaded # Fatal
    /\ recv = "loaded" /\ srch.pc = "done" /\ Len(srch.results) >= 2

(***************************************************************************)
(* Claims about Search.                                                    *)
(***************************************************************************)
Returned == srch.pc = "done"

Scores(results) == [i \in DOMAIN results |-> results[i].Score]

Descending(results) ==
    \A i \in 1..(Len(results) - 1) : results[i].Score >= results[i + 1].Score

\* C1: a Search with limit >= 1 returns at most limit results.
C1_AtMostLimit ==
    (Returned /\ srch.limit >= 1) => Len(srch.results) <= srch.limit

\* C2: the list a Search with limit >= 1 returns is in non-increasing score
\* order over its whole length.
C2_DescendingScores ==
    (Returned /\ srch.limit >= 1) => Descending(srch.results)

\* C3: a Search with limit <= 0 completes normally and returns an empty list.
C3_NonPositiveLimitEmpty ==
    (srch.pc # "idle" /\ srch.limit <= 0) =>
        /\ srch.pc # "panic"
        /\ Returned => srch.results = <<>>

\* C4: with limit >= 1 every result of Search has a score in [0, 1], every
\* per-term value tfLogIdf of the query being at most 1.
C4_ScoreInUnitInterval ==
    (idx # NoIndex /\ srch.pc # "idle" /\ srch.limit >= 1) =>
        /\ \A i \in DOMAIN srch.results :
              srch.results[i].Score >= 0 /\ srch.results[i].Score <= FixOne
        /\ \A term \in Range(buildNGrams(srch.terms)), name \in DOMAIN idx.docs :
              tfLogIdf(idx, ToLower(term), name) <= FixOne

\* C4's case: a returned list with a score strictly inside (0, 1) and a
\* score of exactly 1
C4_Witness ==
    /\ Returned /\ srch.limit >= 1
    /\ \E i \in DOMAIN srch.results :
          srch.results[i].Score > 0 /\ srch.results[i].Score < FixOne
    /\ \E i \in DOMAIN srch.results : srch.results[i].Score = FixOne

(***************************************************************************)
(* Claims about build.                                                     *)
(***************************************************************************)
Built == idx # NoIndex

\* the number of documents of the index that hold the term
DocFreq(term) ==
    Cardinality({name \in DOMAIN idx.docs :
                    term \in Range(DocTerms(NormalizerDefault, idx.docs[name]))})

CorpusTerms ==
    UNION {Range(DocTerms(NormalizerDefault, idx.docs[name])) : name \in DOMAIN idx.docs}

\* df/N >= max(1/sqrt(max(N,10)/10), 0.05), in integers: below 10 documents
\* the threshold is 1; from 10 on, df/N >= sqrt(10/N) is df^2 >= 10*N
PruneRule(df, n) ==
    IF n < 10 THEN df >= n ELSE df * df >= 10 * n /\ 20 * df >= n

\* C7: after build over N documents a term occurring in df documents is
\* absent from the term table exactly when df/N >= max(1/sqrt(max(N,10)/10),
\* 0.05); with N = 10 only a term of all 10 documents is removed, with
\* N = 1000 exactly the terms of at least 100 documents.
C7_PruningBoundary ==
    Built =>
        LET n == DocCount(idx) IN
        \A term \in CorpusTerms :
            /\ term \notin DOMAIN idx.TMap <=> PruneRule(DocFreq(term), n)
            /\ n = 10 => (term \notin DOMAIN idx.TMap <=> DocFreq(term) = 10)
            /\ n = 1000 => (term \notin DOMAIN idx.TMap <=> DocFreq(term) >= 100)

\* C7's case: 1000 documents and a term of exactly 100 of them, removed
C7_Witness ==
    /\ Built /\ DocCount(idx) = 1000
    /\ DocFreq(<<"a">>) = 100 /\ <<"a">> \notin DOMAIN idx.TMap

\* C8: every term of the table of a built index has idf >= 1, the idf being
\* the document count over the number of documents with a TfMap entry.
C8_IdfAtLeastOne ==
    Built =>
        \A term \in DOMAIN idx.TMap :
            /\ idx.TMap[term].Idf =
                  Frac(DocCount(idx), Cardinality(DOMAIN idx.TMap[term].TfMap))
            /\ FracGeq(idx.TMap[term].Idf, Frac(1, 1))
            /\ DOMAIN idx.TMap[term].TfMap \subseteq DOMAIN idx.docs

\* C8's case: a table with a term of several documents
C8_Witness ==
    /\ Built
    /\ \E term \in DOMAIN idx.TMap : Cardinality(DOMAIN idx.TMap[term].TfMap) >= 2

(***************************************************************************)
(* The pruning rule on larger corpora: of n files, files 1..k hold "a" and *)
(* the others hold "b", or nothing at all (Length 0) when empty is set.     *)
(***************************************************************************)
BulkFiles(n, k, empty) ==
    [i \in 1..n |-> IF i <= k THEN <<"a">> ELSE IF empty THEN <<>> ELSE <<"b">>]

\* corpus sizes around the thresholds 1, 1/sqrt(N/10) and 0.05, with the
\* numbers k of files holding "a"
PruneCases ==
    {<<n, k, FALSE>> : n \in 1..12, k \in 0..12}
        \cup {<<20, k, FALSE>> : k \in 13..16}
        \cup {<<40, k, FALSE>> : k \in 19..21}
        \cup {<<1000, k, TRUE>> : k \in 99..101}
        \cup {<<4410, k, TRUE>> : k \in 220..221}
        \cup {<<n, k, TRUE>> : n \in 2..3, k \in 1..2}

InitPrune ==
    \E case \in PruneCases :
        /\ case[2] <= case[1]
        /\ Start(DefaultLoader(BulkFiles(case[1], case[2], case[3])),
                 [Compressed |-> FALSE])


SpecPrune == InitPrune /\ [][NewIndex]_vars

(***************************************************************************)
(* One more document: the index over fsDocs and the index over fsDocs and  *)
(* a further file, searched one after the other with the same query.       *)
(***************************************************************************)
\* NewIndex over the files of the corpus and one more file
NewIndexPlus ==
    /\ idx # NoIndex /\ idx2 = NoIndex
    /\ \E i \in DOMAIN ContentList :
          LET name == DocName(Cardinality(DOMAIN fsDocs) + 1)
          IN  idx2' = NewIndexOf(fsDocs @@ (name :> NewDoc(name, ContentList[i])), opts)
    /\ UNCHANGED <<reload, grams, bld, calls, fsDocs, opts, idx,
                   disk, loaded, recv, srch, prev, scan>>

\* a call of idx.Search with a limit that returns every match
SearchFirst ==
    /\ idx2 # NoIndex
    /\ \E terms \in Queries : SearchStartOn("idx", terms, DocCount(idx2))

\* the caller keeps the results and calls idx2.Search with the same query
SearchSecond ==
    /\ idx2 # NoIndex
    /\ recv = "idx" /\ srch.pc = "done"
    /\ prev' = srch.results
    /\ recv' = "idx2"
    /\ srch' = SearchBegin(idx2, srch.terms, srch.limit)
    /\ UNCHANGED <<reload, grams, bld, calls, fsDocs, opts,
                   idx, idx2, disk, loaded, scan>>

InitMono ==
    \E n \in 0..(MaxDocs - 1) : \E c \in Corpora(n) :
        Start(DefaultLoader(Files(c)), [Compressed |-> FALSE])

NextMono ==
    \/ NewIndex
    \/ NewIndexPlus
    \/ SearchFirst
    \/ SearchSecond
    \/ SearchScan
    \/ SearchReturn
    \/ SearchRelease

SpecMono == InitMono /\ [][NextMono]_vars

Names(results) == {results[i].Name : i \in DOMAIN results}

\* the document of idx2 that idx has not
ExtraDoc == idx2.docs[CHOOSE name \in DOMAIN idx2.docs : name \notin DOMAIN idx.docs]

ExpandedTerms == Range(buildNGrams(srch.terms))

\* both searches have returned, and the further document holds none of the
\* expanded terms of the query
BothReturned ==
    /\ idx2 # NoIndex /\ recv = "idx2" /\ srch.pc = "done"
    /\ \A term \in ExpandedTerms :
          {term, ToLower(term)} \cap Range(DocTerms(NormalizerDefault, ExtraDoc)) = {}

\* the score of the document in the results
ScoreIn(results, name) ==
    results[CHOOSE i \in DOMAIN results : results[i].Name = name].Score

\* equal up to the rounding of the arithmetic: within 0.05
Close(x, y) == 20 * (IF x >= y THEN x - y ELSE y - x) <= FixOne

\* C9 as claimed: adding a document that holds none of the query's expanded
\* terms leaves the returned documents, their scores and their order as
\* they were.
C9_SameResultsWithOneMoreDoc ==
    BothReturned =>
        /\ Names(srch.results) = Names(prev)
        /\ Scores(srch.results) = Scores(prev)

\* C9 as amended: no document is lost and the added one is not returned;
\* the same documents are returned when each expanded term is in both term
\* tables or in neither; and for a one-word query the scores are the same
\* up to rounding.
C9_NoResultLost ==
    BothReturned =>
        /\ Names(prev) \subseteq Names(srch.results)
        /\ ExtraDoc.Name \notin Names(srch.results)
        /\ (\A term \in ExpandedTerms :
                term \in DOMAIN idx.TMap <=> term \in DOMAIN idx2.TMap)
              => Names(srch.results) = Names(prev)
        /\ Len(srch.terms) = 1 =>
              \A name \in Names(prev) :
                  Close(ScoreIn(prev, name), ScoreIn(srch.results, name))

\* C9's case: a one-word query that returned two documents or more from
\* both indexes
C9_Witness ==
    /\ BothReturned
    /\ Len(srch.terms) = 1
    /\ Len(prev) >= 2 /\ Len(srch.results) >= 2

(***************************************************************************)
(* The corpus law.txt = "the moral law binds", free.txt = "freedom and     *)
(* law".                                                                   *)
(***************************************************************************)
LawText == <<"t", "h", "e", " ", "m", "o", "r", "a", "l", " ", "l", "a", "w", " ", "b", "i", "n", "d", "s">>

FreeText == <<"f", "r", "e", "e", "d", "o", "m", " ", "a", "n", "d", " ", "l", "a", "w">>

LawWord == <<"l", "a", "w">>

LawDocs ==
    ("law.txt" :> NewDoc("law.txt", LawText)) @@ ("free.txt" :> NewDoc("free.txt", FreeText))

InitLaw == Start(LawDocs, [Compressed |-> FALSE])

SpecLaw == InitLaw /\ [][Next]_vars

\* a Search for ["law"] with a limit of 2 or more has returned
LawSearched ==
    /\ idx # NoIndex
    /\ DOMAIN idx.docs = {"law.txt", "free.txt"}
    /\ recv = "idx" /\ srch.pc = "done"
    /\ srch.terms = <<LawWord>> /\ srch.limit >= 2

\* C10 as claimed: on the corpus law.txt, free.txt a Search for ["law"]
\* with limit >= 2 returns both documents, each with a score above 0.
C10_BothLawDocsReturned ==
    LawSearched =>
        \A name \in {"law.txt", "free.txt"} :
            \E i \in DOMAIN srch.results :
                srch.results[i].Name = name /\ srch.results[i].Score > 0

\* C10 as amended: "law" is in both documents, so build removes it from the
\* term table, and the Search for ["law"] returns no result.
C10_LawPrunedNoResults ==
    LawSearched =>
        /\ LawWord \notin DOMAIN idx.TMap
        /\ srch.results = <<>>

\* C10's case: the Search for ["law"] with limit >= 2 has returned
C10_Witness == LawSearched /\ DocFreq(LawWord) = 2

(***************************************************************************)
(* A query the term table knows no term of.                                *)
(***************************************************************************)
\* a Search call on idx, a non-empty index, with limit >= 1 and a query none
\* of whose expanded terms is a key of the term table
UnknownQuery ==
    /\ idx # NoIndex /\ DocCount(idx) >= 1
    /\ recv = "idx" /\ srch.pc # "idle" /\ srch.limit >= 1
    /\ Range(buildNGrams(srch.terms)) \cap DOMAIN idx.TMap = {}

\* C11: on a non-empty index, a Search with limit >= 1 and a query none of
\* whose expanded terms is a key of the term table scores no document, does
\* not panic and returns the empty list (the error it returns is always nil).
C11_UnknownQueryEmpty ==
    UnknownQuery =>
        /\ srch.pc \in {"scan", "done"}
        /\ srch.candidates = {}
        /\ srch.h = <<>>
        /\ srch.results = <<>>

\* C11's case: such a Search has returned, on an index whose table has terms
C11_Witness ==
    /\ UnknownQuery /\ srch.pc = "done"
    /\ DOMAIN idx.TMap # {}
    /\ <<"z">> \in Range(srch.terms)

(***************************************************************************)
(* buildNGrams on its own: calls with word slices of every length up to    *)
(* MaxWords and every spare capacity up to MaxSpare.                       *)
(***************************************************************************)
MaxWords == 4

MaxSpare == 3

GramWords == {<<"a">>, <<"b">>}

\* what the caller's array holds past the slice
Spare == <<"s", "p">>

\* a call of buildNGrams(content)
CallBuildNGrams ==
    /\ grams = NoGrams
    /\ \E n \in 0..MaxWords, spare \in 0..MaxSpare : \E w \in [1..n -> GramWords] :
          LET arr == w \o [i \in 1..spare |-> Spare]
          IN  grams' = [content |-> w, arr |-> arr, out |-> buildNGramsIn(arr, n)]
    /\ UNCHANGED <<reload, fsDocs, opts, idx, idx2, disk, loaded, recv, srch, prev, scan,
                   bld, calls>>

\* the caller is done with the result
GramsRelease ==
    /\ grams # NoGrams
    /\ grams' = NoGrams
    /\ UNCHANGED <<reload, fsDocs, opts, idx, idx2, disk, loaded, recv, srch, prev, scan,
                   bld, calls>>

InitGrams == Start(DefaultLoader(<<>>), [Compressed |-> FALSE])

NextGrams == CallBuildNGrams \/ GramsRelease

SpecGrams == InitGrams /\ [][NextGrams]_vars

\* the space-joined windows of n contiguous words of w, left to right, or w
\* itself when it has fewer than n words
Windows(w, n) ==
    IF Len(w) >= n
    THEN [i \in 1..(Len(w) - n + 1) |-> Join([j \in 1..n |-> w[i + j - 1]])]
    ELSE w

\* C12: buildNGrams(w) is w, then the bigram windows of w, then the trigram
\* windows of w, each list being w itself when w is too short; the trigrams
\* are those of the original words; the caller's words are left as they were.
C12_BuildNGramsOrder ==
    grams # NoGrams =>
        LET w == grams.content IN
        /\ grams.out.result = (w \o Windows(w, 2)) \o Windows(w, 3)
        /\ grams.out.result = buildNGrams(w)
        /\ SubSeq(grams.out.callerArr, 1, Len(w)) = w

\* C12's case: four words, appended within the caller's capacity
C12_Witness ==
    /\ grams # NoGrams
    /\ Len(grams.content) = 4
    /\ Len(grams.arr) >= 7
    /\ grams.out.result[5] = <<"a", " ", "b">>
    /\ grams.out.result[8] = <<"a", " ", "b", " ", "b">>

(***************************************************************************)
(* Concurrent callers: each runs Index.Search on idx, the loops of the     *)
(* calls interleaved pass by pass.  Everything a call writes (queryTerms,  *)
(* candidates, h, results) is local to it.                                 *)
(***************************************************************************)
MaxCallers == 2

Callers == 1..MaxCallers

\* the call of caller c, Idle when there is none
CallOf(c) == IF c \in DOMAIN calls THEN calls[c] ELSE Idle

\* with every call on the heap of the first caller
heapShared(cs, c) == IF 1 \in DOMAIN cs THEN cs[1].h ELSE <<>>

\* h, the heap of the call of caller c
heapOf(cs, c) == cs[c].h

\* the queries of the concurrent callers: those of one word
ConcQueries == {terms \in Queries : Len(terms) = 1}

\* caller c calls idx.Search(terms, SearchOpts{Limit: limit})
CallSearch(c) ==
    /\ idx # NoIndex
    /\ CallOf(c).pc = "idle"
    /\ \E terms \in ConcQueries, limit \in 1..MaxLimit :
          calls' = (c :> SearchBegin(idx, terms, limit)) @@ calls
    /\ UNCHANGED <<reload, fsDocs, opts, idx, idx2, disk, loaded, recv, srch, prev, scan,
                   grams, bld>>

\* the loop of caller c's call takes its next candidate
CallScan(c) ==
    /\ CallOf(c).pc = "scan"
    /\ \E name \in calls[c].candidates :
          calls' = [calls EXCEPT ![c] =
                       SearchVisit(idx, [calls[c] EXCEPT !.h = heapOf(calls, c)], name)]
    /\ UNCHANGED <<reload, fsDocs, opts, idx, idx2, disk, loaded, recv, srch, prev, scan,
                   grams, bld>>

\* caller c's call returns
CallReturn(c) ==
    /\ CallOf(c).pc = "scan"
    /\ calls[c].candidates = {}
    /\ calls' = [calls EXCEPT ![c] = SearchFinish(calls[c])]
    /\ UNCHANGED <<reload, fsDocs, opts, idx, idx2, disk, loaded, recv, srch, prev, scan,
                   grams, bld>>

\* caller c is done with the results
CallRelease(c) ==
    /\ CallOf(c).pc = "done"
    /\ calls' = [calls EXCEPT ![c] = Idle]
    /\ UNCHANGED <<reload, fsDocs, opts, idx, idx2, disk, loaded, recv, srch, prev, scan,
                   grams, bld>>

InitConc ==
    \E n \in 0..(MaxDocs - 1) : \E c \in Corpora(n) :
        Start(DefaultLoader(Files(c)), [Compressed |-> FALSE])

NextConc ==
    \/ NewIndex
    \/ \E c \in Callers : CallSearch(c)
    \/ \E c \in Callers : CallScan(c)
    \/ \E c \in Callers : CallReturn(c)
    \/ \E c \in Callers : CallRelease(c)

SpecConc == InitConc /\ [][NextConc]_vars

\* the results a call can return when it runs alone from the state st, over
\* the orders the candidates can be visited in
RECURSIVE SoloResults(_, _)
SoloResults(index, st) ==
    IF st.candidates = {} THEN {SearchFinish(st).results}
    ELSE UNION {SoloResults(index, SearchVisit(index, st, name)) : name \in st.candidates}

\* C13: Search leaves the index as build made it (term table and documents),
\* however many calls with limit >= 1 run on it, one after another or
\* interleaved, and each call returns a result it can return when run alone.
C13_SearchReadsOnly ==
    idx # NoIndex =>
        /\ idx = NewIndexOf(fsDocs, opts)
        /\ \A c \in DOMAIN calls :
              calls[c].pc = "done" =>
                  calls[c].results \in
                      SoloResults(idx, SearchBegin(idx, calls[c].terms, calls[c].limit))

\* C13's case: two calls with different queries in their loops at the same
\* time, each with an entry on its heap and a candidate still to visit
C13_Witness ==
    /\ DOMAIN calls = Callers
    /\ \A c \in Callers :
          calls[c].pc = "scan" /\ calls[c].h # <<>> /\ calls[c].candidates # {}
    /\ calls[1].terms # calls[2].terms

(***************************************************************************)
(* A run of build over the loader's documents, pass by pass.               *)
(***************************************************************************)
\* build is entered: idx.TMap = make(map[string]TermFreq)
BuildBegin ==
    /\ bld = NoBuild
    /\ bld' = [pc |-> IF DOMAIN fsDocs = {} THEN "done" ELSE "docs",
               TMap |-> <<>>, docsLeft |-> DOMAIN fsDocs, termsLeft |-> {}]
    /\ UNCHANGED <<reload, fsDocs, opts, idx, idx2, disk, loaded, recv, srch, prev, scan,
                   grams, calls>>

\* the first loop takes the next document of the map; after the last one
\* the second loop begins
BuildDocStep ==
    /\ bld.pc = "docs"
    /\ \E name \in bld.docsLeft :
          LET tmap == BuildDoc(bld.TMap, fsDocs[name], NormalizerDefault)
              left == bld.docsLeft \ {name}
          IN  bld' = [pc |-> IF left # {} THEN "docs"
                             ELSE IF DOMAIN tmap = {} THEN "done" ELSE "terms",
                      TMap |-> tmap, docsLeft |-> left,
                      termsLeft |-> IF left = {} THEN DOMAIN tmap ELSE {}]
    /\ UNCHANGED <<reload, fsDocs, opts, idx, idx2, disk, loaded, recv, srch, prev, scan,
                   grams, calls>>

\* the second loop takes the next term of the map
BuildTermStep ==
    /\ bld.pc = "terms"
    /\ \E term \in bld.termsLeft :
          LET left == bld.termsLeft \ {term}
          IN  bld' = [pc |-> IF left = {} THEN "done" ELSE "terms",
                      TMap |-> BuildTerm(bld.TMap, term, Cardinality(DOMAIN fsDocs)),
                      docsLeft |-> {}, termsLeft |-> left]
    /\ UNCHANGED <<reload, fsDocs, opts, idx, idx2, disk, loaded, recv, srch, prev, scan,
                   grams, calls>>

NextBuild == NewIndex \/ BuildBegin \/ BuildDocStep \/ BuildTermStep

SpecBuild == Init /\ [][NextBuild]_vars

\* C14: build is a function of the documents and the normalizer: whatever
\* order the documents and the terms are ranged over in, the table has the
\* same terms, the same idf for each term and the same tf for each term and
\* document, those of the index NewIndex builds from the same documents.
C14_BuildDeterministic ==
    bld.pc = "done" =>
        /\ bld.TMap = build(fsDocs, NormalizerDefault)
        /\ idx # NoIndex => bld.TMap = idx.TMap

\* C14's case: a run of build over three documents or more that is done,
\* with terms kept and terms deleted
C14_Witness ==
    /\ bld.pc = "done" /\ idx # NoIndex
    /\ Cardinality(DOMAIN fsDocs) >= 3
    /\ DOMAIN bld.TMap # {}
    /\ \E term \in CorpusTerms : term \notin DOMAIN bld.TMap

(***************************************************************************)
(* The top of the ranking.                                                 *)
(***************************************************************************)
\* the results of the candidates of the call that score above 0
Positive ==
    {sr \in {docScore(Receiver(recv), srch.terms, name) :
                name \in Candidates(Receiver(recv), srch.terms)} : sr.Score > 0}

\* the first min(limit, P) entries of the returned list
TopPrefix == SubSeq(srch.results, 1, Min(srch.limit, Cardinality(Positive)))

\* C15: with limit >= 1 and P candidates scoring above 0, in whatever order
\* the candidates are visited, the heap never holds more than limit entries,
\* and the first min(limit, P) entries of the returned list are distinct
\* candidates in descending score order, no candidate outside them scoring
\* higher than the last of them.
C15_TopLimitPrefix ==
    (idx # NoIndex /\ srch.pc # "idle" /\ srch.limit >= 1) =>
        /\ Len(srch.h) <= srch.limit
        /\ Returned =>
              /\ Len(srch.results) >= Min(srch.limit, Cardinality(Positive))
              /\ Range(TopPrefix) \subseteq Positive
              /\ Cardinality(Range(TopPrefix)) = Len(TopPrefix)
              /\ Descending(TopPrefix)
              /\ \A sr \in Positive \ Range(TopPrefix) :
                    sr.Score <= TopPrefix[Len(TopPrefix)].Score

\* C15's case: more positively scoring candidates than limit, of different
\* scores, so that the heap evicted or refused one
C15_Witness ==
    /\ idx # NoIndex /\ Returned /\ srch.limit >= 1
    /\ Cardinality(Positive) > srch.limit
    /\ \E sr \in Positive \ Range(TopPrefix) :
          sr.Score < TopPrefix[Len(TopPrefix)].Score
    /\ srch.limit = 2 /\ TopPrefix[1].Score > TopPrefix[2].Score

\* C16: no document appears more than once in the list one Search call with
\* limit >= 1 returns.
C16_NoDuplicateDocs ==
    (idx # NoIndex /\ Returned /\ srch.limit >= 1) =>
        \A i, j \in DOMAIN srch.results :
            srch.results[i].Name = srch.results[j].Name => i = j

(***************************************************************************)
(* Search by candidates against the full scan of the same query.           *)
(***************************************************************************)
\* a call of idx.Search with the number of documents for limit
SearchWide ==
    /\ idx # NoIndex /\ scan = NoScan
    /\ \E terms \in Queries : SearchStartOn("idx", terms, DocCount(idx))

\* the full-scan Search of the query of the call that has returned
FullScanSame ==
    /\ idx # NoIndex /\ scan = NoScan
    /\ recv = "idx" /\ srch.pc = "done"
    /\ LET scored == ScoreAll(idx, srch.terms)
           found == {scored[name] : name \in {nm \in DOMAIN scored : scored[nm].Score > 0}}
       IN  \E results \in SortedByScore(found) :
               scan' = [terms |-> srch.terms, scored |-> scored, results |-> results]
    /\ UNCHANGED <<reload, fsDocs, opts, idx, idx2, disk, loaded, recv, srch, prev,
                   grams, bld, calls>>

NextWide ==
    \/ NewIndex
    \/ SearchWide
    \/ SearchScan
    \/ SearchReturn
    \/ FullScanSame
    \/ SearchRelease
    \/ ScanRelease

SpecWide == Init /\ [][NextWide]_vars

\* both searches of one query have returned
BothSearched ==
    /\ idx # NoIndex /\ recv = "idx" /\ srch.pc = "done"
    /\ scan # NoScan /\ scan.terms = srch.terms
    /\ srch.limit >= DocCount(idx)

\* C17: with limit >= the number of documents, Search returns the documents
\* that the full scan returns (the documents of the corpus whose docScore is
\* above 0), each once and with the same score, for queries of any letter
\* case.
C17_CandidatesAreOptimization ==
    BothSearched =>
        /\ Range(srch.results) = Range(scan.results)
        /\ Len(srch.results) = Len(scan.results)
        /\ Descending(srch.results)

\* C17's case: a query of two words that returned two documents or more,
\* with a document of the corpus left out
C17_Witness ==
    /\ BothSearched
    /\ Len(srch.terms) = 2
    /\ Len(srch.results) >= 2
    /\ Len(srch.results) < DocCount(idx)

(***************************************************************************)
(* The stored term frequencies.                                            *)
(***************************************************************************)
\* the number of places where the term is a window of contiguous words of w
WindowCount(term, w) ==
    LET k == Len(Fields(term))
    IN  Cardinality({i \in 1..(Len(w) - k + 1) : Join(SubSeq(w, i, i + k - 1)) = term})

\* C18: after build, for every term of the table and every document of its
\* TfMap, the stored tf is the number of occurrences of the term as a
\* contiguous n-gram of the document's words over the document's Length,
\* documents of one or two words included.
C18_TfIsOccurrencesOverLength ==
    Built =>
        \A term \in DOMAIN idx.TMap : \A name \in DOMAIN idx.TMap[term].TfMap :
            idx.TMap[term].TfMap[name] =
                Frac(WindowCount(term, Fields(DefaultNormalizer(idx.docs[name].Content))),
                     idx.docs[name].Length)

(***************************************************************************)
(* Documents of Length 0.                                                  *)
(***************************************************************************)
\* the documents of the index without those of Length 0
NonEmptyDocs ==
    [name \in {nm \in DOMAIN idx.docs : idx.docs[nm].Length # 0} |-> idx.docs[name]]

\* C19: the term table of a corpus (terms, idf, tf, pruning) is the table
\* of the corpus without its documents of Length 0, and no tf is the
\* quotient of a division by a zero Length.
C19_ZeroLengthExcluded ==
    Built =>
        /\ idx.TMap = build(NonEmptyDocs, NormalizerDefault)
        /\ \A term \in DOMAIN idx.TMap : \A name \in DOMAIN idx.TMap[term].TfMap :
              idx.TMap[term].TfMap[name].d # 0

(***************************************************************************)
(* What build leaves in the table.                                         *)
(***************************************************************************)
\* C20: after build over N >= 1 documents every term left in the table is in
\* fewer than N documents: its idf is above 1, ln(idf) is above 0 and the
\* sum tfNorm takes the root of is not 0; the table of a one-document corpus
\* is empty, and a Search on it has no candidate and no result.
C20_TableTermsAreRare ==
    (Built /\ DocCount(idx) >= 1) =>
        /\ \A term \in DOMAIN idx.TMap :
              /\ Cardinality(DOMAIN idx.TMap[term].TfMap) < DocCount(idx)
              /\ DocFreq(term) < DocCount(idx)
              /\ FracLt(Frac(1, 1), idx.TMap[term].Idf)
              /\ Log(FixOfFrac(idf(idx, term))) > 0
              /\ normSumOf(idx, term) > 0
        /\ DocCount(idx) = 1 =>
              /\ DOMAIN idx.TMap = {}
              /\ srch.candidates = {}
              /\ srch.results = <<>>

\* C20's case: a Search for a word of the only document has returned
C20_Witness ==
    /\ Built /\ DocCount(idx) = 1
    /\ Returned /\ srch.limit >= 1
    /\ Range(srch.terms) \cap CorpusTerms # {}

(***************************************************************************)
(* Load, Save, Load: the index LoadIndex returned is saved to the index    *)
(* path, and LoadIndex is called again with the same options.              *)
(***************************************************************************)
\* idx.Save(opts.IndexPath), before the index is loaded
SaveBuilt == loaded = NoIndex /\ SaveIndex

\* loaded.Save(opts.IndexPath)
SaveLoaded ==
    /\ loaded # NoIndex /\ loaded # Fatal
    /\ reload.pc = "none"
    /\ disk' = Save(loaded)
    /\ reload' = [pc |-> "saved", index |-> NoIndex]
    /\ UNCHANGED <<fsDocs, opts, idx, idx2, loaded, recv, srch, prev, scan,
                   grams, bld, calls>>

\* LoadIndex(loader, opts) after loaded.Save
LoadAgain ==
    /\ reload.pc = "saved"
    /\ reload' = [pc |-> "loaded", index |-> LoadIndex(disk, fsDocs, opts)]
    /\ UNCHANGED <<fsDocs, opts, idx, idx2, disk, loaded, recv, srch, prev, scan,
                   grams, bld, calls>>

NextReload == NewIndex \/ SaveBuilt \/ LoadIndexCall \/ SaveLoaded \/ LoadAgain

SpecReload == InitStore /\ [][NextReload]_vars

\* C21: Save writes the index in the format it was loaded from: the Save of
\* an index that LoadIndex returned with Compressed = true writes a gzip
\* file, and LoadIndex with the same options loads it again, with the same
\* term table.
C21_SaveKeepsFormat ==
    (opts.Compressed /\ reload.pc # "none") =>
        /\ disk.gzip
        /\ reload.pc = "loaded" =>
              /\ reload.index # Fatal
              /\ reload.index.TMap = loaded.TMap

====
